---- MODULE Spec2Model ----
(***************************************************************************)
(* Painhunter: the two-stage LLM analysis pipeline of                      *)
(* src/src/painhunter/analyzer.py.                                         *)
(*                                                                         *)
(*   _try_call_llm_async            retry + model-fallback controller      *)
(*   screen_posts_with_llm          batched, permit-limited screening      *)
(*   analyze_pain_points_by_source  grouping and per-subreddit analysis    *)
(*   analyze_pain_points            one deep-analysis call                 *)
(*                                                                         *)
(* A post is identified by its position in the input list; the model keeps *)
(* of each post the fields the pipeline reads: subreddit, title and link.  *)
(* A title is a sequence of characters, a link a string.                   *)
(***************************************************************************)
EXTENDS Integers, Sequences, FiniteSets, TLC

VARIABLES
    call,       \* SpecCall: the activation record of one _try_call_llm_async
    log,        \* SpecCall: history of the attempts that call has made
    plan,       \* SpecPlan: the batch planning of screen_posts_with_llm
    posts,      \* the input list: posts[p + 1] is the post at position p
    reply,      \* the text the remote service answers a screening request with
    tasks,      \* one record per process_batch task, in batch_starts order
    permits,    \* free permits of the semaphore
    pcS,        \* where screen_posts_with_llm stands
    valuable_posts, \* the list screen_posts_with_llm returns
    pcA,        \* where analyze_pain_points_by_source stands
    posts_by_subreddit,     \* the groups of valuable posts, in insertion order
    gi,         \* the group whose analyze_pain_points call is awaited
    all_opportunities,  \* the merged records so far
    result,     \* what analyze_pain_points_by_source returned or raised
    api_key,    \* whether OPENAI_API_KEY is set in the environment
    pcP,        \* where a call of analyze_pain_points of its own stands
    response,   \* the text the remote service answered that call with
    analysis    \* what that call returned or raised

callVars == <<call, log>>
screenVars == <<posts, reply, tasks, permits, pcS, valuable_posts>>
analysisVars == <<pcA, posts_by_subreddit, gi, all_opportunities, result>>
pointVars == <<pcP, response, analysis>>
vars == <<call, log, plan, posts, reply, tasks, permits, pcS, valuable_posts,
          pcA, posts_by_subreddit, gi, all_opportunities, result, api_key,
          pcP, response, analysis>>

\* what each specification leaves alone
outsideCall == <<plan, screenVars, analysisVars, pointVars, api_key>>
outsidePlan == <<callVars, screenVars, analysisVars, pointVars, api_key>>
outsideScreen == <<callVars, plan, analysisVars, pointVars, api_key>>
outsideAnalysis == <<callVars, plan, pointVars, api_key>>
outsidePoint == <<callVars, plan, reply, tasks, permits, pcS, valuable_posts,
                  analysisVars, api_key>>

None == "None"

(***************************************************************************)
(* Bounds of the model.                                                    *)
(***************************************************************************)
\* largest max_retries argument handed to _try_call_llm_async
MaxRetries == 3
\* largest number of posts handed to the batch planner
MaxPlanTotal == 48
\* SpecBatches: lists of 1..MaxSmallTotal posts (batches of one post) and of
\* max_calls + 1 .. max_calls + MaxOverCap posts (batches of two)
MaxSmallTotal == 3
MaxOverCap == 2
\* largest "index" a verdict of the modelled responses carries
MaxIndex == 2
\* most entries in the JSON array of a modelled response
MaxVerdicts == 2
\* SpecBatches: most batches of one run whose fallback chain is exhausted
MaxFailedBatches == 1
\* SpecScreen: most posts handed to screen_posts_with_llm
MaxPosts == 5
\* Spec: most posts handed to analyze_pain_points_by_source
MaxItems == 3
\* most records in the "opportunities" array of a modelled response
MaxOpps == 2
\* SpecAnalyze: most posts of the subreddit handed to analyze_pain_points
MaxPartition == 2
\* SpecAnalyze: most titles a modelled record cites
MaxCites == 2
\* SpecAnalyze: sub-scores range over -1 .. MaxScore
MaxScore == 7

(***************************************************************************)
(* _try_call_llm_async (analyzer.py 141-192)                               *)
(***************************************************************************)
DefaultModel == "gemini-3-flash-preview"
FallbackB == "gemini-2.5-flash"
FallbackC == "gemini-2.5-flash-lite"

\* default of the max_retries parameter
DefaultMaxRetries == 2

\* The fallback list built from the preferred model.  Both guards compare
\* against "gemini-2.5-flash-lite", as the source does.
ModelChain(model) ==
    <<model>>
        \o (IF model # FallbackC THEN <<FallbackB>> ELSE <<>>)
        \o (IF model # FallbackC THEN <<FallbackC>> ELSE <<>>)

\* Entering the nested loop: first model, attempt 0, about to await the
\* remote call.
CallStart(model, max_retries) ==
    [ chain       |-> ModelChain(model),
      max_retries |-> max_retries,
      mi          |-> 1,
      attempt     |-> 0,
      st          |-> "calling",
      last_error  |-> None,
      ret         |-> None ]

\* The awaited remote call returned: return its text at once.
CallSucceed(c, text) == [c EXCEPT !.st = "returned", !.ret = text]

\* The awaited remote call raised e: remember it, then sleep before the next
\* attempt on the same model, or fall through to the next model, or, the
\* models exhausted, raise RuntimeError built from last_error.
CallFailKeepsFirstError(c, e) ==
    LET c1 == [c EXCEPT !.last_error = IF c.last_error = None THEN e ELSE @]
    IN  IF c.attempt < c.max_retries - 1
          THEN [c1 EXCEPT !.st = "sleeping"]
          ELSE IF c.mi < Len(c.chain)
                 THEN [c1 EXCEPT !.mi = @ + 1, !.attempt = 0]
                 ELSE [c1 EXCEPT !.st = "raised"]

CallFail(c, e) ==
    LET c1 == [c EXCEPT !.last_error = e]
    IN  IF c.attempt < c.max_retries - 1
          THEN [c1 EXCEPT !.st = "sleeping"]
          ELSE IF c.mi < Len(c.chain)
                 THEN [c1 EXCEPT !.mi = @ + 1, !.attempt = 0]
                 ELSE [c1 EXCEPT !.st = "raised"]

\* asyncio.sleep(1) is over: next attempt on the same model.
CallWake(c) == [c EXCEPT !.attempt = @ + 1, !.st = "calling"]

\* The exception _try_call_llm_async ends with.
TerminalFailure(c) == [type |-> "RuntimeError", cause |-> c.last_error]

(***************************************************************************)
(* Batch planning of screen_posts_with_llm (analyzer.py 215-222, 245-246,  *)
(* 281)                                                                    *)
(***************************************************************************)
max_calls == 15
max_concurrent == 4

Min(a, b) == IF a <= b THEN a ELSE b

\* math.ceil(a / b) for a >= 0, b > 0
Ceil(a, b) == IF a % b = 0 THEN a \div b ELSE (a \div b) + 1

\* list(range(start, stop, step)), step > 0
RECURSIVE Range(_, _, _)
Range(start, stop, step) ==
    IF start >= stop THEN <<>>
    ELSE <<start>> \o Range(start + step, stop, step)

BatchSizeRoundsDown(total_posts) == (total_posts \div max_calls) + 1

BatchSize(total_posts) == Ceil(total_posts, max_calls)

BatchStarts(total_posts, batch_size) == Range(0, total_posts, batch_size)

BatchEnd(batch_start, batch_size, total_posts) ==
    Min(batch_start + batch_size, total_posts)

\* positions of posts[batch_start:batch_end] in a list of total_posts posts
SlicePositions(batch_start, batch_end, total_posts) ==
    {p \in 0..(total_posts - 1) : batch_start <= p /\ p < batch_end}

PlanIdle ==
    [st |-> "idle", total |-> 0, batch_size |-> 0, starts |-> <<>>,
     slices |-> <<>>]

(***************************************************************************)
(* process_batch and the merge of screen_posts_with_llm (analyzer.py       *)
(* 242-298)                                                                *)
(*                                                                         *)
(* A response text is modelled by what the parsing code can tell apart:    *)
(*   kind "noarray"  no "[" or no "]" in the text                          *)
(*   kind "badjson"  json.loads raises on the bracketed substring          *)
(*   kind "array"    a JSON array, items its entries in order              *)
(* and an entry by: is_object (a JSON object, so item.get exists),         *)
(* has_index / index (its "index" member), is_valuable (truthiness of its  *)
(* "is_valuable" member).                                                  *)
(***************************************************************************)
\* OPENAI_MODEL unset: os.environ.get falls back to the default model
EnvModel == DefaultModel

\* item.get("index", -1)
GetIndex(item) == IF item.has_index THEN item.index ELSE -1

ActualIdxIgnoresBatchStart(batch_start, idx) == idx

\* actual_idx = batch_start + idx
ActualIdx(batch_start, idx) == batch_start + idx

\* The for-loop over the parsed array from entry k on, acc the
\* valuable_indices so far.  item.get on an entry that is no object raises;
\* the except clause ends the loop and process_batch returns
\* valuable_indices as it then stands.
RECURSIVE AcceptVerdicts(_, _, _, _, _)
AcceptVerdicts(items, k, batch_start, total_posts, acc) ==
    IF k > Len(items) THEN [indices |-> acc, error |-> None]
    ELSE IF ~items[k].is_object
           THEN [indices |-> acc, error |-> "AttributeError"]
    ELSE LET idx == GetIndex(items[k])
             actual_idx == ActualIdx(batch_start, idx)
             keep == /\ idx >= 0
                     /\ items[k].is_valuable
                     /\ actual_idx < total_posts
         IN  AcceptVerdicts(items, k + 1, batch_start, total_posts,
                            IF keep THEN Append(acc, actual_idx) ELSE acc)

\* What process_batch returns once _try_call_llm_async returned content.
ProcessContent(batch_start, total_posts, content) ==
    CASE content.kind = "noarray" -> [indices |-> <<>>, error |-> None]
      [] content.kind = "badjson" ->
            [indices |-> <<>>, error |-> "JSONDecodeError"]
      [] OTHER -> AcceptVerdicts(content.items, 1, batch_start, total_posts,
                                 <<>>)

\* What process_batch returns once _try_call_llm_async raised.
ProcessFailure == [indices |-> <<>>, error |-> "RuntimeError"]

TotalPosts == Len(posts)

Starts == BatchStarts(TotalPosts, BatchSize(TotalPosts))

\* batch b (1-based, in batch_starts order) covers StartOf(b) .. EndOf(b) - 1
StartOf(b) == Starts[b]
EndOf(b) == BatchEnd(StartOf(b), BatchSize(TotalPosts), TotalPosts)

RECURSIVE Extend(_, _)
\* all_valuable_indices: the tasks' lists, extended in gather order
Extend(results, b) ==
    IF b > Len(results) THEN <<>>
    ELSE results[b].indices \o Extend(results, b + 1)

RECURSIVE Pick(_, _, _)
\* [posts[i] for i in indices if i < len(posts)]
Pick(ps, indices, k) ==
    IF k > Len(indices) THEN <<>>
    ELSE (IF indices[k] < Len(ps) THEN <<ps[indices[k] + 1]>> ELSE <<>>)
            \o Pick(ps, indices, k + 1)

CollectLastBatchFirst(ps, results) ==
    LET rev == [b \in 1..Len(results) |-> results[Len(results) + 1 - b]]
    IN  Pick(ps, Extend(rev, 1), 1)

\* analyzer.py 284-295: gather hands the results over in the order of
\* tasks, whatever the order in which the tasks finished
Collect(ps, results) == Pick(ps, Extend(results, 1), 1)

(***************************************************************************)
(* Values of the variables a specification does not use.                   *)
(***************************************************************************)
CallIdle ==
    [chain |-> <<>>, max_retries |-> 0, mi |-> 0, attempt |-> 0,
     st |-> "idle", last_error |-> None, ret |-> None]

NoReply == [kind |-> "noarray", items |-> <<>>]

CallUnused == call = CallIdle /\ log = <<>>
PlanUnused == plan = PlanIdle
ScreenUnused ==
    /\ posts = <<>>
    /\ reply = NoReply
    /\ tasks = <<>>
    /\ permits = 0
    /\ pcS = "idle"
    /\ valuable_posts = <<>>

NoResult == [kind |-> "none"]

AnalysisUnused ==
    /\ pcA = "idle"
    /\ posts_by_subreddit = <<>>
    /\ gi = 0
    /\ all_opportunities = <<>>
    /\ result = NoResult

NoResponse == [kind |-> "noobject", opportunities |-> <<>>]

PointUnused ==
    /\ pcP = "idle"
    /\ response = NoResponse
    /\ analysis = NoResult

(***************************************************************************)
(* SpecCall: one call of _try_call_llm_async, its inputs the preferred     *)
(* model and max_retries, its environment the outcome of every attempt.    *)
(***************************************************************************)
PreferredModels == {DefaultModel, FallbackB, FallbackC, "custom-model"}
RemoteErrors == {"timeout", "rate_limit"}
CallTexts == {"text1", "text2"}

InitCall ==
    /\ call \in {CallStart(m, r) : m \in PreferredModels, r \in 1..MaxRetries}
    /\ log = <<>>
    /\ PlanUnused
    /\ ScreenUnused
    /\ AnalysisUnused
    /\ PointUnused
    /\ api_key = TRUE

CallAttemptOk ==
    /\ call.st = "calling"
    /\ \E t \in CallTexts :
          /\ call' = CallSucceed(call, t)
          /\ log' = Append(log, [model |-> call.chain[call.mi], ok |-> TRUE,
                                 out |-> t])
    /\ UNCHANGED outsideCall

CallAttemptFail ==
    /\ call.st = "calling"
    /\ \E e \in RemoteErrors :
          /\ call' = CallFail(call, e)
          /\ log' = Append(log, [model |-> call.chain[call.mi], ok |-> FALSE,
                                 out |-> e])
    /\ UNCHANGED outsideCall

CallSleepDone ==
    /\ call.st = "sleeping"
    /\ call' = CallWake(call)
    /\ UNCHANGED <<log, outsideCall>>

NextCall == CallAttemptOk \/ CallAttemptFail \/ CallSleepDone

SpecCall == InitCall /\ [][NextCall]_vars

(***************************************************************************)
(* SpecPlan: the planning arithmetic applied to every list length up to    *)
(* MaxPlanTotal: the batch size, the batch starts, then each batch's slice *)
(* as process_batch cuts it.                                               *)
(***************************************************************************)
InitPlan ==
    /\ plan \in {[PlanIdle EXCEPT !.st = "start", !.total = n] :
                    n \in 1..MaxPlanTotal}
    /\ CallUnused
    /\ ScreenUnused
    /\ AnalysisUnused
    /\ PointUnused
    /\ api_key = TRUE

PlanSize ==
    /\ plan.st = "start"
    /\ plan' = [plan EXCEPT !.st = "sized",
                            !.batch_size = BatchSize(plan.total)]
    /\ UNCHANGED outsidePlan

PlanStarts ==
    /\ plan.st = "sized"
    /\ plan' = [plan EXCEPT !.st = "slicing",
                            !.starts = BatchStarts(plan.total, plan.batch_size)]
    /\ UNCHANGED outsidePlan

PlanSlice ==
    /\ plan.st = "slicing"
    /\ Len(plan.slices) < Len(plan.starts)
    /\ LET bs == plan.starts[Len(plan.slices) + 1]
           be == BatchEnd(bs, plan.batch_size, plan.total)
       IN  plan' = [plan EXCEPT
                      !.slices = Append(@, SlicePositions(bs, be, plan.total))]
    /\ UNCHANGED outsidePlan

NextPlan == PlanSize \/ PlanStarts \/ PlanSlice

SpecPlan == InitPlan /\ [][NextPlan]_vars

(***************************************************************************)
(* screen_posts_with_llm as a state machine.                               *)
(*                                                                         *)
(* A unit is one process_batch task.  It is "pending" until it holds a     *)
(* permit, "running" while it holds one (its call field then the           *)
(* activation of _try_call_llm_async it awaits), "done" once it returned   *)
(* its valuable_indices.  error records the exception the task caught, if  *)
(* any.                                                                    *)
(***************************************************************************)
UnitPending ==
    [st |-> "pending", call |-> CallIdle, indices |-> <<>>, error |-> None]

UnitDone(r) ==
    [st |-> "done", call |-> CallIdle, indices |-> r.indices,
     error |-> r.error]

\* rss_fetcher.py 86-94: the title and the link the feed gives the post at
\* position id, a title of one character of its own and a permalink
PostTitle(id) == <<ToString(id)>>
PostLink(id) == "https://redd.it/" \o ToString(id)

MakePost(id, subreddit) ==
    [id |-> id, subreddit |-> subreddit, title |-> PostTitle(id),
     link |-> PostLink(id)]

MakePosts(n) == [p \in 1..n |-> MakePost(p - 1, "a")]

AnyDone == \E b \in 1..Len(tasks) : tasks[b].st = "done"

\* asyncio.gather(*tasks): the await is over once every task has returned
AllDone == \A b \in 1..Len(tasks) : tasks[b].st = "done"

EntryCheckKeyFirst(ps, key) ==
    IF ~key THEN "ValueError" ELSE IF ps = <<>> THEN "empty" ELSE "go"

\* analyzer.py 204-209 and 383-388: "if not posts" returns before the
\* API key is looked at; a missing key then raises ValueError.
EntryCheck(ps, key) ==
    IF ps = <<>> THEN "empty" ELSE IF ~key THEN "ValueError" ELSE "go"

\* analyzer.py 204-209 and 217-284: the empty list returns at once and a
\* missing API key raises; otherwise the batches are planned, one task per
\* batch start is created and the function awaits gather.
ScreenStart ==
    /\ pcS = "start"
    /\ \/ /\ EntryCheck(posts, api_key) = "empty"
          /\ pcS' = "returned"
          /\ valuable_posts' = <<>>
          /\ UNCHANGED <<tasks, permits>>
       \/ /\ EntryCheck(posts, api_key) = "ValueError"
          /\ pcS' = "raised"
          /\ UNCHANGED <<tasks, permits, valuable_posts>>
       \/ /\ EntryCheck(posts, api_key) = "go"
          /\ tasks' = [b \in 1..Len(Starts) |-> UnitPending]
          /\ permits' = max_concurrent
          /\ pcS' = "gather"
          /\ UNCHANGED valuable_posts
    /\ UNCHANGED <<posts, reply, outsideScreen>>

ReleaseLeaks(free) == free

\* leaving "async with semaphore", by return or by exception, gives the
\* permit back
Release(free) == free + 1

MayEnterAlways(free) == TRUE

\* async with semaphore: the task enters only while a permit is free
MayEnter(free) == free > 0

\* analyzer.py 244-258: the task enters the semaphore, builds its request
\* and awaits the first attempt of _try_call_llm_async.
UnitAcquire(b) ==
    /\ pcS = "gather"
    /\ tasks[b].st = "pending"
    /\ MayEnter(permits)
    /\ permits' = permits - 1
    /\ tasks' = [tasks EXCEPT ![b] =
                    [@ EXCEPT !.st = "running",
                              !.call = CallStart(EnvModel, DefaultMaxRetries)]]
    /\ UNCHANGED <<posts, reply, pcS, valuable_posts, outsideScreen>>

\* analyzer.py 178-182, 258-278: the awaited attempt returns; the task
\* parses the text, returns its indices and leaves the semaphore.
UnitAttemptOk(b) ==
    /\ pcS = "gather"
    /\ tasks[b].st = "running"
    /\ tasks[b].call.st = "calling"
    /\ LET content == CallSucceed(tasks[b].call, reply).ret
       IN  tasks' = [tasks EXCEPT ![b] =
                       UnitDone(ProcessContent(StartOf(b), TotalPosts, content))]
    /\ permits' = Release(permits)
    /\ UNCHANGED <<posts, reply, pcS, valuable_posts, outsideScreen>>

\* analyzer.py 183-192, 275-278: the awaited attempt raises; the controller
\* sleeps, moves to the next model or raises RuntimeError, which the task
\* catches before it returns and leaves the semaphore.
UnitAttemptFail(b) ==
    /\ pcS = "gather"
    /\ tasks[b].st = "running"
    /\ tasks[b].call.st = "calling"
    /\ LET c == CallFail(tasks[b].call, "timeout")
       IN  IF c.st = "raised"
             THEN /\ tasks' = [tasks EXCEPT ![b] = UnitDone(ProcessFailure)]
                  /\ permits' = Release(permits)
             ELSE /\ tasks' = [tasks EXCEPT ![b] = [@ EXCEPT !.call = c]]
                  /\ UNCHANGED permits
    /\ UNCHANGED <<posts, reply, pcS, valuable_posts, outsideScreen>>

\* analyzer.py 186-188: asyncio.sleep(1) is over.
UnitWake(b) ==
    /\ pcS = "gather"
    /\ tasks[b].st = "running"
    /\ tasks[b].call.st = "sleeping"
    /\ tasks' = [tasks EXCEPT ![b] = [@ EXCEPT !.call = CallWake(@)]]
    /\ UNCHANGED <<posts, reply, permits, pcS, valuable_posts, outsideScreen>>

\* analyzer.py 284-298: every task has finished; merge and return.
GatherDone ==
    /\ pcS = "gather"
    /\ AllDone
    /\ valuable_posts' = Collect(posts, tasks)
    /\ pcS' = "returned"
    /\ UNCHANGED <<posts, reply, tasks, permits, outsideScreen>>

(***************************************************************************)
(* SpecScreen: one call of screen_posts_with_llm, the tasks interleaved at *)
(* their await points in every order.                                      *)
(***************************************************************************)
Verdict(i, v) ==
    [is_object |-> TRUE, has_index |-> TRUE, index |-> i, is_valuable |-> v]

ArrayReply(items) == [kind |-> "array", items |-> items]

\* every batch is answered "its first post is valuable"
ScreenReplies == {ArrayReply(<<Verdict(0, TRUE)>>)}

InitScreen ==
    /\ posts \in {MakePosts(n) : n \in 0..MaxPosts}
    /\ reply \in ScreenReplies
    /\ tasks = <<>>
    /\ permits = 0
    /\ pcS = "start"
    /\ valuable_posts = <<>>
    /\ api_key \in BOOLEAN
    /\ CallUnused
    /\ PlanUnused
    /\ AnalysisUnused
    /\ PointUnused

NextScreen ==
    \/ ScreenStart
    \/ \E b \in 1..Len(tasks) :
          UnitAcquire(b) \/ UnitAttemptOk(b) \/ UnitAttemptFail(b) \/ UnitWake(b)
    \/ GatherDone

SpecScreen == InitScreen /\ [][NextScreen]_vars

(***************************************************************************)
(* SpecScreenFair: one call of screen_posts_with_llm on one post more than *)
(* there are permits, so that a task has to wait for one.  The event loop  *)
(* runs a task that can run, and an awaited remote call or sleep comes to  *)
(* its end: some step of NextScreen is taken whenever one can be.          *)
(***************************************************************************)
\* a verdict "the first post is valuable" followed by an entry that is no
\* object: an answered task accepts an index and then catches the
\* exception of the malformed entry
FairReplies ==
    {ArrayReply(<<Verdict(0, TRUE),
                  [is_object |-> FALSE, has_index |-> FALSE, index |-> 0,
                   is_valuable |-> FALSE]>>)}

InitFair ==
    /\ posts = MakePosts(max_concurrent + 1)
    /\ reply \in FairReplies
    /\ tasks = <<>>
    /\ permits = 0
    /\ pcS = "start"
    /\ valuable_posts = <<>>
    /\ api_key = TRUE
    /\ CallUnused
    /\ PlanUnused
    /\ AnalysisUnused
    /\ PointUnused

SpecScreenFair == InitFair /\ [][NextScreen]_vars /\ WF_vars(NextScreen)

(***************************************************************************)
(* SpecBatches: one call of screen_posts_with_llm in which the tasks run   *)
(* to completion one after another, in batch order, over every modelled    *)
(* response text.  A task's _try_call_llm_async either returns the text or *)
(* exhausts its models.                                                    *)
(***************************************************************************)
Entries ==
    [is_object : {TRUE}, has_index : {TRUE}, index : 0..MaxIndex,
     is_valuable : BOOLEAN]
      \cup [is_object : {TRUE}, has_index : {FALSE}, index : {0},
            is_valuable : BOOLEAN]
      \cup [is_object : {FALSE}, has_index : {FALSE}, index : {0},
            is_valuable : {FALSE}]

Replies ==
    {[kind |-> k, items |-> <<>>] : k \in {"noarray", "badjson"}}
      \cup {ArrayReply(a) : a \in UNION {[1..n -> Entries] : n \in 0..MaxVerdicts}}

BatchTotals ==
    (0..MaxSmallTotal) \cup ((max_calls + 1)..(max_calls + MaxOverCap))

FailedBatches ==
    Cardinality({b \in 1..Len(tasks) : tasks[b].error = "RuntimeError"})

InitBatches ==
    /\ posts \in {MakePosts(n) : n \in BatchTotals}
    /\ reply \in Replies
    /\ tasks = <<>>
    /\ permits = 0
    /\ pcS = "start"
    /\ valuable_posts = <<>>
    /\ api_key \in BOOLEAN
    /\ CallUnused
    /\ PlanUnused
    /\ AnalysisUnused
    /\ PointUnused

\* analyzer.py 242-278 without interleaving: acquire, call, parse, return,
\* release.
BatchRun(b) ==
    /\ pcS = "gather"
    /\ tasks[b].st = "pending"
    /\ \A c \in 1..(b - 1) : tasks[c].st = "done"
    /\ permits > 0
    /\ \/ tasks' = [tasks EXCEPT ![b] =
                       UnitDone(ProcessContent(StartOf(b), TotalPosts, reply))]
       \/ /\ FailedBatches < MaxFailedBatches
          /\ tasks' = [tasks EXCEPT ![b] = UnitDone(ProcessFailure)]
    /\ UNCHANGED <<posts, reply, permits, pcS, valuable_posts, outsideScreen>>

NextBatches ==
    \/ ScreenStart
    \/ \E b \in 1..Len(tasks) : BatchRun(b)
    \/ GatherDone

SpecBatches == InitBatches /\ [][NextBatches]_vars

(***************************************************************************)
(* analyze_pain_points (analyzer.py 372-472) and calculate_overall_score   *)
(* (analyzer.py 301-307)                                                   *)
(*                                                                         *)
(* A deep-analysis response text is modelled by what the parsing code can  *)
(* tell apart:                                                             *)
(*   kind "noobject"  no "{" or no "}" in the text                         *)
(*   kind "badjson"   json.loads raises JSONDecodeError                    *)
(*   kind "object"    a JSON object, opportunities its "opportunities"     *)
(*                    array (empty when the member is absent)              *)
(* and an entry of that array by: is_object (a JSON object, so opp.get     *)
(* exists), n (its place in the array), source_subreddit (the value the    *)
(* model supplied for that member), source_posts (the cited titles), the   *)
(* three score members (kind "missing", kind "int" with value v, or kind   *)
(* "text" for a JSON string), has_product_type / product_type.             *)
(***************************************************************************)
NoScore == [kind |-> "missing", v |-> 0]
IntScore(x) == [kind |-> "int", v |-> x]
TextScore == [kind |-> "text", v |-> 0]

ModelRecord(cites, tech, monetize, claude, has_type, type) ==
    [is_object |-> TRUE, n |-> 1, source_subreddit |-> "model",
     source_posts |-> cites,
     tech_complexity_score |-> tech,
     monetization_score |-> monetize,
     claude_code_score |-> claude,
     has_product_type |-> has_type, product_type |-> type]

\* a record that cites nothing and leaves scores and product type out
PlainRecord == ModelRecord(<<>>, NoScore, NoScore, NoScore, FALSE, "")

\* an entry of the array that is no JSON object (a string, a number)
NonObject == [PlainRecord EXCEPT !.is_object = FALSE]

Numbered(recs) == [j \in 1..Len(recs) |-> [recs[j] EXCEPT !.n = j]]

ObjectReply(recs) == [kind |-> "object", opportunities |-> Numbered(recs)]

\* result.get("opportunities", []) once the remote call returned content
DeepOpportunities(content) ==
    IF content.kind = "object" THEN content.opportunities ELSE <<>>

\* str.lower() on the characters the modelled titles are made of
LowerChar(ch) == CASE ch = "A" -> "a" [] ch = "B" -> "b" [] OTHER -> ch

Lower(title) == [i \in 1..Len(title) |-> LowerChar(title[i])]

\* s in t, for strings as sequences of characters
Contains(t, s) ==
    \E i \in 0..(Len(t) - Len(s)) : SubSeq(t, i + 1, i + Len(s)) = s

\* position of the key title in the insertion-ordered map, 0 when absent
KeyIndex(map, title) ==
    IF \E i \in 1..Len(map) : map[i].title = title
      THEN CHOOSE i \in 1..Len(map) : map[i].title = title
      ELSE 0

RECURSIVE TitleToLink(_, _, _)
\* {post['title']: post['link'] for post in posts}: a title seen again
\* keeps its place and takes the later post's link
TitleToLink(ps, k, map) ==
    IF k > Len(ps) THEN map
    ELSE LET i == KeyIndex(map, ps[k].title)
         IN  TitleToLink(ps, k + 1,
                IF i = 0
                  THEN Append(map, [title |-> ps[k].title, link |-> ps[k].link])
                  ELSE [map EXCEPT ![i].link = ps[k].link])

\* title_to_link.get(title)
MapGet(map, title) ==
    IF KeyIndex(map, title) = 0 THEN None ELSE map[KeyIndex(map, title)].link

\* "if link:" is false for None and for the empty string
Truthy(link) == link # None /\ link # ""

\* title.lower() in post_title.lower() or post_title.lower() in title.lower()
FuzzyMatch(title, post_title) ==
    \/ Contains(Lower(post_title), Lower(title))
    \/ Contains(Lower(title), Lower(post_title))

\* the entry at which the loop over title_to_link.items() breaks, 0 when
\* it runs to its else clause
FirstFuzzy(map, title) ==
    IF \E i \in 1..Len(map) : FuzzyMatch(title, map[i].title)
      THEN CHOOSE i \in 1..Len(map) :
              /\ FuzzyMatch(title, map[i].title)
              /\ \A j \in 1..(i - 1) : ~FuzzyMatch(title, map[j].title)
      ELSE 0

\* analyzer.py 435-448 for one cited title
ResolveLink(map, title) ==
    LET link == MapGet(map, title)
        i == FirstFuzzy(map, title)
    IN  IF Truthy(link) THEN [title |-> title, link |-> link]
        ELSE IF i # 0 THEN [title |-> title, link |-> map[i].link]
        ELSE [title |-> title, link |-> None]

\* source_links for opp.get("source_posts", [])
SourceLinks(map, source_posts) ==
    [k \in 1..Len(source_posts) |-> ResolveLink(map, source_posts[k])]

Max(a, b) == IF a >= b THEN a ELSE b

\* max(1, min(5, x))
Clamp(x) == Max(1, Min(5, x))

\* round(x, 1) of a non-negative x given in hundredths, the result in
\* tenths; a tie goes to the even tenth
Round1(hundredths) ==
    LET q == hundredths \div 10
        r == hundredths % 10
    IN  IF r < 5 THEN q
        ELSE IF r > 5 THEN q + 1
        ELSE IF q % 2 = 0 THEN q ELSE q + 1

OverallScoreUnclamped(tech, monetize, claude) ==
    Round1(tech * 20 + monetize * 40 + claude * 40)

\* round(tech * 0.2 + monetize * 0.4 + claude * 0.4, 1) on the clamped
\* sub-scores, in tenths
calculate_overall_score(tech, monetize, claude) ==
    Round1(Clamp(tech) * 20 + Clamp(monetize) * 40 + Clamp(claude) * 40)

\* default of opp.get for a missing sub-score
DefaultScore == 3

\* opp.get("tech_complexity_score", 3) and its like, for a number
GetScore(score) == IF score.kind = "missing" THEN DefaultScore ELSE score.v

\* The lookup table of analyzer.py 460-469.  Its keys written in Chinese
\* stand here in pinyin:
\*   "liulanqi-chajian"        browser plugin
\*   "liulanqi-chajian-xuqiu"  browser plugin demand
\*   "Web-yingyong"            Web application
\*   "duli-Web-yingyong"       standalone Web application
\*   "qita"                    other
type_map ==
    ("liulanqi-chajian" :> "browser_extension")
        @@ ("liulanqi-chajian-xuqiu" :> "browser_extension")
        @@ ("web_app" :> "browser_extension")
        @@ ("Web-yingyong" :> "web_app")
        @@ ("duli-Web-yingyong" :> "web_app")
        @@ ("saas" :> "saas")
        @@ ("SaaS" :> "saas")
        @@ ("qita" :> "other")

ProductTypeKeepsUnknown(opp) ==
    LET product_type ==
            IF opp.has_product_type THEN opp.product_type ELSE "other"
    IN  IF product_type \in DOMAIN type_map
          THEN type_map[product_type] ELSE product_type

\* type_map.get(opp.get("product_type", "other"), "other")
ProductType(opp) ==
    LET product_type ==
            IF opp.has_product_type THEN opp.product_type ELSE "other"
    IN  IF product_type \in DOMAIN type_map
          THEN type_map[product_type] ELSE "other"

\* a sub-score on which max(1, min(5, x)) raises TypeError
NotANumber(score) == score.kind = "text"

BadScores(opp) ==
    \/ NotANumber(opp.tech_complexity_score)
    \/ NotANumber(opp.monetization_score)
    \/ NotANumber(opp.claude_code_score)

\* the record as the two loops of analyzer.py 432-470 leave it;
\* overall_score in tenths
Finish(opp, map) ==
    [is_object |-> opp.is_object, n |-> opp.n,
     source_subreddit |-> opp.source_subreddit,
     source_posts |-> opp.source_posts,
     tech_complexity_score |-> opp.tech_complexity_score,
     monetization_score |-> opp.monetization_score,
     claude_code_score |-> opp.claude_code_score,
     has_product_type |-> TRUE,
     product_type |-> ProductType(opp),
     source_posts_with_links |-> SourceLinks(map, opp.source_posts),
     overall_score |->
        calculate_overall_score(GetScore(opp.tech_complexity_score),
                                GetScore(opp.monetization_score),
                                GetScore(opp.claude_code_score))]

Raised(error) == [kind |-> "exception", opportunities |-> <<>>, error |-> error]

\* analyze_pain_points from the parsing of the returned content on
\* (analyzer.py 411-472).  The first loop calls opp.get on every entry and
\* raises AttributeError on one that is no object; the second loop raises
\* TypeError on a sub-score that is no number.  Neither loop stands inside
\* a try.
AnalyzePainPoints(ps, content) ==
    LET opps == DeepOpportunities(content)
        map == TitleToLink(ps, 1, <<>>)
    IN  IF \E j \in 1..Len(opps) : ~opps[j].is_object
          THEN Raised("AttributeError")
        ELSE IF \E j \in 1..Len(opps) : BadScores(opps[j])
          THEN Raised("TypeError")
        ELSE [kind |-> "result",
              opportunities |-> [j \in 1..Len(opps) |-> Finish(opps[j], map)],
              error |-> None]

Message == [kind |-> "message", opportunities |-> <<>>]

\* analyzer.py 383-409: the empty list returns at once and a missing API
\* key raises; otherwise the function builds its request and awaits the
\* remote call.
PainPointsStart ==
    /\ pcP = "start"
    /\ \/ /\ EntryCheck(posts, api_key) = "empty"
          /\ pcP' = "returned"
          /\ analysis' = Message
       \/ /\ EntryCheck(posts, api_key) = "ValueError"
          /\ pcP' = "raised"
          /\ analysis' = Raised("ValueError")
       \/ /\ EntryCheck(posts, api_key) = "go"
          /\ pcP' = "calling"
          /\ UNCHANGED analysis
    /\ UNCHANGED <<posts, response, outsidePoint>>

\* analyzer.py 403-472: the awaited remote call returns one of the texts
\* of replies; the function parses it, resolves links, scores and
\* canonicalizes, and returns or raises.
PainPointsCallReturns(replies) ==
    /\ pcP = "calling"
    /\ \E content \in replies :
          /\ response' = content
          /\ analysis' = AnalyzePainPoints(posts, content)
          /\ pcP' = IF AnalyzePainPoints(posts, content).kind = "exception"
                      THEN "raised" ELSE "returned"
    /\ UNCHANGED <<posts, outsidePoint>>

\* analyzer.py 403-409: the awaited remote call raises; nothing in
\* analyze_pain_points catches it.
PainPointsCallRaises ==
    /\ pcP = "calling"
    /\ \E e \in RemoteErrors :
          analysis' = Raised(e)
    /\ pcP' = "raised"
    /\ UNCHANGED <<posts, response, outsidePoint>>

(***************************************************************************)
(* SpecAnalyze: one call of analyze_pain_points, the API key configured,   *)
(* on the posts of one subreddit and one response text.  Titles and cited  *)
(* titles vary together; scores, product types and malformed shapes vary   *)
(* against a list of one post.                                             *)
(***************************************************************************)
Titles == {<<>>, <<"a">>, <<"b">>, <<"a", "b">>, <<"A", "b">>}

\* posts with a title of Titles and either their permalink or, the feed
\* entry having none, the empty link of rss_fetcher.py 89
PartitionLists ==
    UNION {{[p \in 1..n |->
                [id |-> p - 1, subreddit |-> "a", title |-> t[p],
                 link |-> IF e[p] THEN "" ELSE PostLink(p - 1)]] :
               t \in [1..n -> Titles], e \in [1..n -> BOOLEAN]} :
           n \in 0..MaxPartition}

CiteLists == UNION {[1..n -> Titles] : n \in 0..MaxCites}

CiteReplies ==
    {ObjectReply(<<[PlainRecord EXCEPT !.source_posts = c]>>) : c \in CiteLists}

Scores == {NoScore, TextScore} \cup {IntScore(x) : x \in (-1)..MaxScore}

ScoreReplies ==
    {ObjectReply(<<ModelRecord(<<>>, t, m, c, FALSE, "")>>) :
        t \in Scores, m \in Scores, c \in Scores}

\* the keys of the table, the two canonical names that are no key, a name
\* the table does not know and the empty string
ModelTypes ==
    DOMAIN type_map \cup {"browser_extension", "other", "desktop_app", ""}

TypeReplies ==
    {ObjectReply(<<ModelRecord(<<>>, NoScore, NoScore, NoScore, TRUE, t)>>) :
        t \in ModelTypes}

ShapeRecords ==
    {PlainRecord, NonObject, [PlainRecord EXCEPT !.monetization_score = TextScore]}

ShapeReplies ==
    {[kind |-> k, opportunities |-> <<>>] : k \in {"noobject", "badjson"}}
      \cup {ObjectReply(<<>>)}
      \cup {ObjectReply(<<r>>) : r \in ShapeRecords}
      \cup {ObjectReply(<<r, q>>) : r \in ShapeRecords, q \in ShapeRecords}

AnalyzeInputs ==
    (PartitionLists \X CiteReplies)
      \cup ({MakePosts(1)} \X (ScoreReplies \cup TypeReplies \cup ShapeReplies))

InitAnalyze ==
    /\ \E inp \in AnalyzeInputs :
          /\ posts = inp[1]
          /\ response = inp[2]
    /\ api_key = TRUE
    /\ pcP = "start"
    /\ analysis = NoResult
    /\ reply = NoReply
    /\ tasks = <<>>
    /\ permits = 0
    /\ pcS = "idle"
    /\ valuable_posts = <<>>
    /\ CallUnused
    /\ PlanUnused
    /\ AnalysisUnused

NextAnalyze ==
    \/ PainPointsStart
    \/ PainPointsCallReturns({response})
    \/ PainPointsCallRaises

SpecAnalyze == InitAnalyze /\ [][NextAnalyze]_vars

(***************************************************************************)
(* analyze_pain_points_by_source (analyzer.py 310-369)                     *)
(***************************************************************************)
Subreddits == {"a", "b"}

\* record j of a well-formed response: the model cites nothing, leaves
\* scores and product type out and supplies a source_subreddit of its own
ModelOpp(j) == [PlainRecord EXCEPT !.n = j]

DeepReplies ==
    {[kind |-> k, opportunities |-> <<>>] : k \in {"noobject", "badjson"}}
      \cup {[kind |-> "object", opportunities |-> [j \in 1..m |-> ModelOpp(j)]] :
                m \in 0..MaxOpps}
      \cup {ObjectReply(<<NonObject>>)}

\* index of the group of subreddit s in gs, 0 when there is none
GroupIndex(gs, s) ==
    IF \E i \in 1..Len(gs) : gs[i].subreddit = s
      THEN CHOOSE i \in 1..Len(gs) : gs[i].subreddit = s
      ELSE 0

RECURSIVE GroupBySubreddit(_, _, _)
\* posts_by_subreddit[post['subreddit']].append(post) for the posts from k on
GroupBySubreddit(ps, k, gs) ==
    IF k > Len(ps) THEN gs
    ELSE LET i == GroupIndex(gs, ps[k].subreddit)
         IN  GroupBySubreddit(ps, k + 1,
                IF i = 0
                  THEN Append(gs, [subreddit |-> ps[k].subreddit,
                                   posts |-> <<ps[k]>>])
                  ELSE [gs EXCEPT ![i].posts = Append(@, ps[k])])

TaggedKeepsModelValue(opps, subreddit) == opps

\* opp["source_subreddit"] = subreddit for every record of one group
Tagged(opps, subreddit) ==
    [j \in 1..Len(opps) |-> [opps[j] EXCEPT !.source_subreddit = subreddit]]

\* {k: len(v) for k, v in posts_by_subreddit.items()}
BySubreddit(gs) ==
    [i \in 1..Len(gs) |->
        [subreddit |-> gs[i].subreddit, count |-> Len(gs[i].posts)]]

\* the dictionary of analyzer.py 361-369
Summary(opps, gs, ps, vps) ==
    [kind |-> "summary",
     opportunities |-> opps,
     total_opportunities |-> Len(opps),
     by_subreddit |-> BySubreddit(gs),
     posts_screened |-> Len(ps),
     posts_after_screening |-> Len(vps)]

\* an exception on its way out of analyze_pain_points_by_source: its
\* error, the subreddit whose analysis raised it and, for a failed remote
\* request, the model asked and the attempts made
Propagated(error, subreddit, model, attempts) ==
    [kind |-> "exception", error |-> error, subreddit |-> subreddit,
     model |-> model, attempts |-> attempts]

\* analyzer.py 326-333: the empty list returns at once; otherwise the
\* function awaits screen_posts_with_llm.
AnalyzeStart ==
    /\ pcA = "start"
    /\ \/ /\ posts = <<>>
          /\ pcA' = "returned"
          /\ result' = Message
          /\ UNCHANGED pcS
       \/ /\ posts # <<>>
          /\ pcA' = "screening"
          /\ pcS' = "start"
          /\ UNCHANGED result
    /\ UNCHANGED <<posts, reply, tasks, permits, valuable_posts, posts_by_subreddit, gi,
                   all_opportunities, outsideAnalysis>>

\* analyzer.py 333-353 and 383-409: screening raised, and the exception
\* goes on; or it returned: nothing valuable returns at once, otherwise
\* the posts are grouped and the first group's remote call is awaited.
AnalyzeGroup ==
    /\ pcA = "screening"
    /\ \/ /\ pcS = "raised"
          /\ pcA' = "raised"
          /\ result' = Propagated("ValueError", None, None, 0)
          /\ UNCHANGED <<posts_by_subreddit, gi>>
       \/ /\ pcS = "returned"
          /\ valuable_posts = <<>>
          /\ pcA' = "returned"
          /\ result' = Message
          /\ UNCHANGED <<posts_by_subreddit, gi>>
       \/ /\ pcS = "returned"
          /\ valuable_posts # <<>>
          /\ posts_by_subreddit' = GroupBySubreddit(valuable_posts, 1, <<>>)
          /\ gi' = 1
          /\ pcA' = "deep"
          /\ UNCHANGED result
    /\ UNCHANGED <<all_opportunities, screenVars, outsideAnalysis>>

\* analyzer.py 403-472, 356-358, then the next group's call or 361-369:
\* the awaited remote call returns; analyze_pain_points returns its
\* records, which are tagged and merged, or raises, and nothing catches
\* the exception on its way out of analyze_pain_points_by_source.
DeepCallReturns ==
    /\ pcA = "deep"
    /\ \E content \in DeepReplies :
          LET group == posts_by_subreddit[gi]
              r == AnalyzePainPoints(group.posts, content)
              opps == all_opportunities \o Tagged(r.opportunities, group.subreddit)
          IN  IF r.kind = "exception"
                THEN /\ pcA' = "raised"
                     /\ result' = Propagated(r.error, group.subreddit, None, 0)
                     /\ UNCHANGED <<gi, all_opportunities>>
              ELSE IF gi < Len(posts_by_subreddit)
                THEN /\ all_opportunities' = opps
                     /\ gi' = gi + 1
                     /\ UNCHANGED <<pcA, result>>
                ELSE /\ all_opportunities' = opps
                     /\ pcA' = "returned"
                     /\ result' = Summary(opps, posts_by_subreddit, posts,
                                          valuable_posts)
                     /\ UNCHANGED gi
    /\ UNCHANGED <<posts_by_subreddit, screenVars, outsideAnalysis>>

\* analyzer.py 403-409, 353: the awaited remote call raises; nothing
\* catches the exception on its way out of analyze_pain_points_by_source.
\* The request was the one client.chat.completions.create call of line 403
\* on the model of line 391: one remote attempt.
DeepCallRaises ==
    /\ pcA = "deep"
    /\ \E e \in RemoteErrors :
          result' = Propagated(e, posts_by_subreddit[gi].subreddit, EnvModel, 1)
    /\ pcA' = "raised"
    /\ UNCHANGED <<posts_by_subreddit, gi, all_opportunities, screenVars, outsideAnalysis>>

(***************************************************************************)
(* Spec: one call of one of the three coroutines of analyzer.py that take   *)
(* a list of posts: analyze_pain_points_by_source (screening included),    *)
(* screen_posts_with_llm or analyze_pain_points, on up to MaxItems posts   *)
(* of two subreddits, the API key configured or not.                       *)
(***************************************************************************)
ItemLists ==
    UNION {{[p \in 1..n |-> MakePost(p - 1, f[p])] :
               f \in [1..n -> Subreddits]} : n \in 0..MaxItems}

InitBySource ==
    /\ pcS = "idle"
    /\ pcA = "start"
    /\ pcP = "idle"

InitScreening ==
    /\ pcS = "start"
    /\ pcA = "idle"
    /\ pcP = "idle"

InitPainPoints ==
    /\ pcS = "idle"
    /\ pcA = "idle"
    /\ pcP = "start"

Init ==
    /\ posts \in ItemLists
    /\ reply \in ScreenReplies
    /\ api_key \in BOOLEAN
    /\ InitBySource \/ InitScreening \/ InitPainPoints
    /\ tasks = <<>>
    /\ permits = 0
    /\ valuable_posts = <<>>
    /\ posts_by_subreddit = <<>>
    /\ gi = 0
    /\ all_opportunities = <<>>
    /\ result = NoResult
    /\ response = NoResponse
    /\ analysis = NoResult
    /\ CallUnused
    /\ PlanUnused

Next ==
    \/ AnalyzeStart
    \/ ScreenStart
    \/ \E b \in 1..Len(tasks) :
          UnitAcquire(b) \/ UnitAttemptOk(b) \/ UnitAttemptFail(b) \/ UnitWake(b)
    \/ GatherDone
    \/ AnalyzeGroup
    \/ DeepCallReturns
    \/ DeepCallRaises
    \/ PainPointsStart
    \/ PainPointsCallReturns(DeepReplies)
    \/ PainPointsCallRaises

Spec == Init /\ [][Next]_vars

(***************************************************************************)
(* Properties of the per-subreddit analysis.                               *)
(***************************************************************************)
RECURSIVE SumCounts(_, _)
SumCounts(counts, i) ==
    IF i > Len(counts) THEN 0 ELSE counts[i].count + SumCounts(counts, i + 1)

\* per subreddit, the number of merged records that subreddit contributed
RecordsPerSubreddit(gs, opps) ==
    [i \in 1..Len(gs) |->
        [subreddit |-> gs[i].subreddit,
         count |-> Cardinality({j \in 1..Len(opps) :
                      opps[j].source_subreddit = gs[i].subreddit})]]

\* C5: a remote-call failure in one subreddit's deep analysis does not end
\* the run with that exception: the function returns, its opportunities the
\* merged records of the subreddits whose call succeeded.
C5_FailedPartitionIsSkipped ==
    /\ ~(pcA = "raised" /\ result.error \in RemoteErrors)
    /\ pcA = "returned" /\ result.kind = "summary" =>
          result.opportunities = all_opportunities

\* C6: in a returned summary the per-subreddit counts are the numbers of
\* records each subreddit contributed; they add up to len(opportunities)
\* and to total_opportunities.
C6_BySubredditSumsToOpportunities ==
    (pcA = "returned" /\ result.kind = "summary") =>
        /\ result.by_subreddit =
              RecordsPerSubreddit(posts_by_subreddit, result.opportunities)
        /\ SumCounts(result.by_subreddit, 1) = Len(result.opportunities)
        /\ result.total_opportunities = Len(result.opportunities)

(***************************************************************************)
(* Properties of process_batch and of the merge.                           *)
(***************************************************************************)
UnitIds == 1..Len(tasks)

\* the unit's _try_call_llm_async returned the response text
Answered(b) == tasks[b].st = "done" /\ tasks[b].error # "RuntimeError"

\* the unit caught an exception
Failed(b) == tasks[b].st = "done" /\ tasks[b].error # None

BatchLen(b) == EndOf(b) - StartOf(b)

\* entry k of the response is a verdict "valuable" with a local index
\* inside batch b
ValuableVerdict(b, k) ==
    /\ reply.kind = "array"
    /\ k \in 1..Len(reply.items)
    /\ reply.items[k].is_object
    /\ reply.items[k].has_index
    /\ reply.items[k].is_valuable
    /\ 0 <= reply.items[k].index
    /\ reply.items[k].index < BatchLen(b)

\* no entry before entry k makes the loop over the array raise
Reached(k) == \A j \in 1..(k - 1) : reply.items[j].is_object

\* the returned list holds the input item at position p
Returned(p) ==
    \E j \in 1..Len(valuable_posts) : valuable_posts[j] = posts[p + 1]

\* C1 as stated: for every batch and every verdict of its response with
\* is_valuable true and local index i inside the batch, the returned list
\* holds the input item at position S + i.
C1_EveryValuableVerdictAttributed ==
    pcS = "returned" =>
        \A b \in UnitIds : \A k \in 1..Len(reply.items) :
            (Answered(b) /\ ValuableVerdict(b, k)) =>
                Returned(StartOf(b) + reply.items[k].index)

\* C1 amended: the same for every such verdict that the loop over the
\* response's array reaches, that is, with no entry before it on which the
\* loop raises.
C1_ReachedVerdictAttributed ==
    pcS = "returned" =>
        \A b \in UnitIds : \A k \in 1..Len(reply.items) :
            (Answered(b) /\ ValuableVerdict(b, k) /\ Reached(k)) =>
                Returned(StartOf(b) + reply.items[k].index)

\* a batch of two posts that does not start the list, its second post
\* selected by a verdict that follows another one
C1_Witness ==
    /\ pcS = "returned"
    /\ \E b \in UnitIds :
          /\ StartOf(b) > 0
          /\ BatchLen(b) = 2
          /\ Answered(b)
          /\ ValuableVerdict(b, 2) /\ Reached(2)
          /\ reply.items[2].index = 1
          /\ Returned(StartOf(b) + 1)
    /\ \E b \in UnitIds : tasks[b].error = "RuntimeError"

\* C2: every global index a batch unit emits lies in that unit's own range
\* [S, min(S + batchSize, total)): a verdict whose local index is not below
\* the batch length selects nothing.
C2_IndicesWithinOwnBatch ==
    \A b \in UnitIds :
        tasks[b].st = "done" =>
            \A j \in 1..Len(tasks[b].indices) :
                /\ StartOf(b) <= tasks[b].indices[j]
                /\ tasks[b].indices[j] < EndOf(b)

\* C3: a batch unit in which an exception was raised contributes no index.
C3_FailedBatchContributesNothing ==
    \A b \in UnitIds : Failed(b) => tasks[b].indices = <<>>

\* what the tasks would hand to the merge had the failing ones returned
\* no verdicts
SucceededOnly ==
    [b \in UnitIds |->
        [indices |-> IF Failed(b) THEN <<>> ELSE tasks[b].indices]]

\* C4: screening returns, and what it returns is what the succeeding
\* batches selected, exactly as if the failing batches had returned no
\* verdicts.
C4_FailedBatchesLeaveOutputAlone ==
    /\ (pcS = "gather" /\ AllDone) => ENABLED GatherDone
    /\ pcS = "returned" => valuable_posts = Collect(posts, SucceededOnly)

(***************************************************************************)
(* Properties of the permit.                                               *)
(***************************************************************************)
Running == {b \in 1..Len(tasks) : tasks[b].st = "running"}

\* C8: in every state of a screening run at most 4 batch tasks hold a
\* permit (are between building their request and returning), whether they
\* await the remote call or a retry sleep, and the permits in use and the
\* free ones always add up to 4.
C8_AtMostFourUnitsRunning ==
    pcS = "gather" =>
        /\ Cardinality(Running) <= max_concurrent
        /\ Cardinality(Running) + permits = max_concurrent
        /\ permits >= 0

\* four tasks running, one of them in a retry sleep, one on a fallback
\* model, while a fifth waits for a permit
C8_Witness ==
    /\ Cardinality(Running) = max_concurrent
    /\ \E b \in 1..Len(tasks) : tasks[b].st = "pending"
    /\ \E b \in Running : tasks[b].call.st = "sleeping"
    /\ \E b \in Running : tasks[b].call.st = "calling" /\ tasks[b].call.mi > 1

(***************************************************************************)
(* Properties of the batch planner.                                        *)
(***************************************************************************)
PlanSliced == plan.st = "slicing" /\ Len(plan.slices) = Len(plan.starts)

\* C7: for every total >= 1 the batch size is ceil(total / 15) >= 1, there
\* are at most 15 batch starts, and the batches' slices partition
\* [0, total): every position lies in exactly one slice and no slice holds
\* a position >= total.
C7_BatchesPartitionInput ==
    /\ plan.st \in {"sized", "slicing"} =>
          /\ plan.batch_size >= 1
          /\ plan.batch_size * max_calls >= plan.total
          /\ (plan.batch_size - 1) * max_calls < plan.total
    /\ plan.st = "slicing" => Len(plan.starts) <= max_calls
    /\ PlanSliced =>
          /\ \A p \in 0..(plan.total - 1) :
                Cardinality({k \in 1..Len(plan.slices) : p \in plan.slices[k]}) = 1
          /\ \A k \in 1..Len(plan.slices) :
                /\ plan.slices[k] \subseteq 0..(plan.total - 1)
                /\ plan.slices[k] # {}

\* a plan with batches of three posts whose last batch is shorter
C7_Witness ==
    /\ PlanSliced
    /\ plan.batch_size = 3
    /\ Cardinality(plan.slices[Len(plan.slices)]) < 3
    /\ Len(plan.starts) = max_calls

(***************************************************************************)
(* Properties of _try_call_llm_async.                                      *)
(***************************************************************************)
AttemptsOn(m) == Cardinality({j \in 1..Len(log) : log[j].model = m})

ChainModels == {call.chain[i] : i \in 1..Len(call.chain)}

\* C9: models are attempted strictly in chain order, a model only after
\* every earlier one failed max_retries consecutive attempts, each model at
\* most max_retries times, and the first attempt that does not raise ends
\* the call with that response's text and no further attempt.
C9_ChainOrderFirstSuccessReturns ==
    /\ \A j \in 1..Len(log) :
          log[j].model = call.chain[((j - 1) \div call.max_retries) + 1]
    /\ \A j \in 1..(Len(log) - 1) : ~log[j].ok
    /\ (Len(log) > 0 /\ log[Len(log)].ok) =>
          (call.st = "returned" /\ call.ret = log[Len(log)].out)
    /\ call.st = "returned" => (Len(log) > 0 /\ log[Len(log)].ok)
    /\ \A m \in ChainModels : AttemptsOn(m) <= call.max_retries

\* C10: the terminal failure is raised exactly when every attempt on every
\* model of the chain was made and failed, and it carries the error of the
\* last attempt, the final attempt on the final model.
C10_TerminalFailureIffAllFailed ==
    /\ call.st = "raised" <=>
          /\ Len(log) = Len(call.chain) * call.max_retries
          /\ \A j \in 1..Len(log) : ~log[j].ok
    /\ call.st = "raised" =>
          /\ TerminalFailure(call).cause = log[Len(log)].out
          /\ log[Len(log)].model = call.chain[Len(call.chain)]

\* the chain of three models exhausted, the last error unlike the first
C10_Witness ==
    /\ call.st = "raised"
    /\ Len(call.chain) = 3
    /\ call.max_retries = DefaultMaxRetries
    /\ log[1].out # log[Len(log)].out

\* C11: the chain starts with the preferred model (the model of the first
\* attempt) and holds no model name twice, so no model is attempted more
\* than max_retries times in one call.
C11_ChainHasNoModelTwice ==
    /\ Len(call.chain) >= 1
    /\ Len(log) >= 1 => log[1].model = call.chain[1]
    /\ \A i, j \in 1..Len(call.chain) :
          i # j => call.chain[i] # call.chain[j]
    /\ \A m \in ChainModels : AttemptsOn(m) <= call.max_retries

(***************************************************************************)
(* Properties of the stages' use of the retry controller.                  *)
(***************************************************************************)
\* the attempts one request makes before the controller gives up
FullBudget(model, max_retries) == Len(ModelChain(model)) * max_retries

\* the controller awaits the last attempt on the last model of its chain
LastAttempt(c) ==
    /\ c.st = "calling"
    /\ c.mi = Len(c.chain)
    /\ c.attempt = c.max_retries - 1

\* a screening task ends with the controller's RuntimeError only in a step
\* from the last attempt on the last model
ScreeningFailsAfterFullBudget ==
    \A b \in 1..Len(tasks) :
        (tasks[b].st = "running" /\ tasks'[b].st = "done"
            /\ tasks'[b].error = "RuntimeError") => LastAttempt(tasks[b].call)

\* a subreddit's deep analysis ends with a remote failure only after the
\* full budget of attempts
DeepFailsAfterFullBudget ==
    (pcA' = "raised" /\ result'.error \in RemoteErrors) =>
        result'.attempts = FullBudget(result'.model, DefaultMaxRetries)

\* C12: in both stages a request fails only after every model of the
\* fallback chain was attempted max_retries times; one failed attempt of
\* the preferred model fails neither a batch nor a subreddit's analysis.
C12_StagesFailOnlyAfterFullBudget ==
    [][ScreeningFailsAfterFullBudget /\ DeepFailsAfterFullBudget]_vars

(***************************************************************************)
(* Properties of analyze_pain_points.                                      *)
(***************************************************************************)
\* an exception that the response text, not the remote call, gave rise to
ContentErrors == {"JSONDecodeError", "AttributeError", "TypeError"}

\* the response has no JSON object, or one that does not parse, or one
\* with an entry that is no object or a sub-score that is no number
Malformed(content) ==
    \/ content.kind \in {"noobject", "badjson"}
    \/ \E j \in 1..Len(content.opportunities) :
          \/ ~content.opportunities[j].is_object
          \/ BadScores(content.opportunities[j])

\* C13: a malformed response is zero contributions from that call: no
\* exception leaves analyze_pain_points because of what the response
\* holds, and the call returns no opportunities.
C13_MalformedResponseContributesNothing ==
    /\ ~(pcP = "raised" /\ analysis.error \in ContentErrors)
    /\ (pcP = "returned" /\ Malformed(response)) =>
          analysis.opportunities = <<>>

(***************************************************************************)
(* Properties of the empty input.                                          *)
(***************************************************************************)
\* some remote call is awaited or a batch task exists
RemoteCallInFlight ==
    \/ tasks # <<>>
    \/ pcS = "gather"
    \/ pcA = "deep"
    \/ pcP = "calling"

\* C14: on the empty list each of the three functions returns at its first
\* step, screen_posts_with_llm the empty list and the two analysis
\* functions opportunities = [] with a message; none raises and none makes
\* a remote call, the API key configured or not.
C14_EmptyInputShortCircuits ==
    posts = <<>> =>
        /\ ~RemoteCallInFlight
        /\ pcS # "raised" /\ pcA # "raised" /\ pcP # "raised"
        /\ pcS \in {"idle", "start", "returned"}
        /\ pcA \in {"idle", "start", "returned"}
        /\ pcP \in {"idle", "start", "returned"}
        /\ pcS = "start" => ENABLED ScreenStart
        /\ pcA = "start" => ENABLED AnalyzeStart
        /\ pcP = "start" => ENABLED PainPointsStart
        /\ pcS = "returned" => valuable_posts = <<>>
        /\ pcA = "returned" =>
              (result.kind = "message" /\ result.opportunities = <<>>)
        /\ pcP = "returned" =>
              (analysis.kind = "message" /\ analysis.opportunities = <<>>)

\* analyze_pain_points has returned on the empty list with no API key
C14_Witness ==
    /\ posts = <<>>
    /\ ~api_key
    /\ pcP = "returned"
    /\ analysis = Message

(***************************************************************************)
(* Properties of the merged screening output.                              *)
(***************************************************************************)
\* the global indices the tasks selected, as a set
SelectedSet ==
    {i \in 0..(Len(posts) - 1) :
        \E b \in UnitIds : \E j \in 1..Len(tasks[b].indices) :
            tasks[b].indices[j] = i}

\* C15: the returned list is the input indexed by the set of selected
\* global indices in increasing position order: no position twice, no more
\* items than the input has, the input's relative order kept.
C15_OutputIsSubsequenceOfInput ==
    pcS = "returned" =>
        /\ Len(valuable_posts) <= Len(posts)
        /\ \A j, k \in 1..Len(valuable_posts) :
              j < k => valuable_posts[j].id < valuable_posts[k].id
        /\ {valuable_posts[j].id : j \in 1..Len(valuable_posts)} = SelectedSet

(***************************************************************************)
(* Properties of the grouping and of the merge.                            *)
(***************************************************************************)
\* the valuable posts of subreddit s, in their order
PostsOf(s) ==
    LET OfS(p) == p.subreddit = s
    IN  SelectSeq(valuable_posts, OfS)

\* place in valuable_posts of the first post of subreddit s
FirstSeen(s) ==
    CHOOSE k \in 1..Len(valuable_posts) :
        /\ valuable_posts[k].subreddit = s
        /\ \A j \in 1..(k - 1) : valuable_posts[j].subreddit # s

\* the groups are the subreddits of the valuable posts, each once, in the
\* order in which they are first seen, each with its posts in order
GroupedInFirstSeenOrder(gs) ==
    /\ {gs[i].subreddit : i \in 1..Len(gs)} =
          {valuable_posts[k].subreddit : k \in 1..Len(valuable_posts)}
    /\ \A i \in 1..Len(gs) : gs[i].posts = PostsOf(gs[i].subreddit)
    /\ \A i, k \in 1..Len(gs) :
          i < k => FirstSeen(gs[i].subreddit) < FirstSeen(gs[k].subreddit)

\* the step appends to the merged list the records of the awaited group's
\* call, in the order of the response, each tagged with that group
MergeStep ==
    all_opportunities' # all_opportunities =>
        /\ Len(all_opportunities') > Len(all_opportunities)
        /\ SubSeq(all_opportunities', 1, Len(all_opportunities)) =
              all_opportunities
        /\ \A j \in 1..(Len(all_opportunities') - Len(all_opportunities)) :
              LET opp == all_opportunities'[Len(all_opportunities) + j]
              IN  /\ opp.n = j
                  /\ opp.source_subreddit = posts_by_subreddit[gi].subreddit

\* in the merged list the groups follow one another in group order
MergedInGroupOrder ==
    \A j, k \in 1..Len(all_opportunities) :
        j < k =>
            GroupIndex(posts_by_subreddit, all_opportunities[j].source_subreddit)
              <= GroupIndex(posts_by_subreddit,
                            all_opportunities[k].source_subreddit)

\* C16: the valuable posts are grouped by subreddit in first-seen order;
\* the merged list is the concatenation, in group order, of each group's
\* records in the order the model returned them; every merged record
\* carries the subreddit of the group whose call produced it, whatever the
\* model supplied.
C16_MergedInGroupOrderAndTagged ==
    [][/\ posts_by_subreddit' # <<>> =>
            GroupedInFirstSeenOrder(posts_by_subreddit)'
       /\ MergeStep
       /\ MergedInGroupOrder'
       /\ (pcA' = "returned" /\ result'.kind = "summary") =>
             result'.opportunities = all_opportunities']_vars

\* a returned summary of two groups, the first-seen subreddit "b" with two
\* posts; both groups' calls produced records, the first one two
C16_Witness ==
    /\ pcA = "returned"
    /\ result.kind = "summary"
    /\ Len(posts_by_subreddit) = 2
    /\ posts_by_subreddit[1].subreddit = "b"
    /\ Len(posts_by_subreddit[1].posts) = 2
    /\ Len(result.opportunities) = 3
    /\ result.opportunities[2].source_subreddit = "b"
    /\ result.opportunities[2].n = 2
    /\ result.opportunities[3].source_subreddit = "a"

(***************************************************************************)
(* Properties of the link resolution.                                      *)
(***************************************************************************)
\* the links of the posts titled title
LinksOf(title) ==
    {posts[p].link : p \in {q \in 1..Len(posts) : posts[q].title = title}}

\* the post's title holds the cited title or is held by it, case ignored
Matches(p, cited) ==
    \/ Contains(Lower(posts[p].title), Lower(cited))
    \/ Contains(Lower(cited), Lower(posts[p].title))

\* the first post, in list order, that matches the cited title
FirstMatch(cited) ==
    CHOOSE p \in 1..Len(posts) :
        /\ Matches(p, cited)
        /\ \A q \in 1..(p - 1) : ~Matches(q, cited)

\* what the entry for a cited title is to carry
LinkAsSpecified(entry, cited) ==
    /\ entry.title = cited
    /\ IF \E p \in 1..Len(posts) : posts[p].title = cited
         THEN entry.link \in LinksOf(cited)
       ELSE IF \E p \in 1..Len(posts) : Matches(p, cited)
         THEN entry.link \in LinksOf(posts[FirstMatch(cited)].title)
       ELSE entry.link = None

\* C17: every returned record has one {title, link} entry per cited title,
\* in the order cited; the link is that of the post with exactly that
\* title, else that of the first post whose title holds the cited title
\* or is held by it, case ignored, else null.
C17_LinksResolvedAsSpecified ==
    (pcP = "returned" /\ analysis.kind = "result") =>
        \A j \in 1..Len(analysis.opportunities) :
            LET opp == analysis.opportunities[j]
            IN  /\ Len(opp.source_posts_with_links) = Len(opp.source_posts)
                /\ \A k \in 1..Len(opp.source_posts) :
                      LinkAsSpecified(opp.source_posts_with_links[k],
                                      opp.source_posts[k])

(***************************************************************************)
(* Properties of the overall score.                                        *)
(***************************************************************************)
\* the sub-score the claim reckons with: 3 for a missing one, else the
\* integer brought into 1..5
Clamped(score) ==
    IF score.kind = "missing" THEN 3
    ELSE IF score.v < 1 THEN 1
    ELSE IF score.v > 5 THEN 5
    ELSE score.v

\* C18: for integer sub-scores, in range or out of it, the overall score
\* is exactly (2 * tech' + 4 * monetize' + 4 * claude') / 10 on the
\* sub-scores clamped into 1..5, a missing sub-score counting as 3, and so
\* lies in 1.0 .. 5.0.  overall_score stands in tenths.
C18_OverallScoreIsClampedWeightedSum ==
    (pcP = "returned" /\ analysis.kind = "result") =>
        \A j \in 1..Len(analysis.opportunities) :
            LET opp == analysis.opportunities[j]
            IN  /\ opp.overall_score =
                      2 * Clamped(opp.tech_complexity_score)
                        + 4 * Clamped(opp.monetization_score)
                        + 4 * Clamped(opp.claude_code_score)
                /\ opp.overall_score >= 10
                /\ opp.overall_score <= 50

\* sub-scores 0, 7, 3 gave 3.4
C18_Witness ==
    /\ pcP = "returned"
    /\ analysis.kind = "result"
    /\ Len(analysis.opportunities) = 1
    /\ analysis.opportunities[1].tech_complexity_score = IntScore(0)
    /\ analysis.opportunities[1].monetization_score = IntScore(7)
    /\ analysis.opportunities[1].claude_code_score = IntScore(3)
    /\ analysis.opportunities[1].overall_score = 34

(***************************************************************************)
(* Properties of the product type.                                         *)
(***************************************************************************)
CanonicalTypes == {"browser_extension", "web_app", "saas", "other"}

\* the value the table holds for each of its keys
TableValue(key) ==
    CASE key \in {"liulanqi-chajian", "liulanqi-chajian-xuqiu", "web_app"} ->
            "browser_extension"
      [] key \in {"Web-yingyong", "duli-Web-yingyong"} -> "web_app"
      [] key \in {"saas", "SaaS"} -> "saas"
      [] key = "qita" -> "other"

TableKeys ==
    {"liulanqi-chajian", "liulanqi-chajian-xuqiu", "web_app", "Web-yingyong",
     "duli-Web-yingyong", "saas", "SaaS", "qita"}

\* C19: every returned record's product_type is one of the four canonical
\* values: the table's value when the model's string is a key of the
\* table, "other" for every other string and for a missing member.
C19_ProductTypeIsCanonical ==
    (pcP = "returned" /\ analysis.kind = "result") =>
        \A j \in 1..Len(analysis.opportunities) :
            LET given == response.opportunities[j]
                type == analysis.opportunities[j].product_type
            IN  /\ type \in CanonicalTypes
                /\ (given.has_product_type /\ given.product_type \in TableKeys)
                      => type = TableValue(given.product_type)
                /\ (given.has_product_type /\ given.product_type \notin TableKeys)
                      => type = "other"
                /\ ~given.has_product_type => type = "other"

\* the name "desktop_app", no key of the table, came back as "other"
C19_Witness ==
    /\ pcP = "returned"
    /\ analysis.kind = "result"
    /\ Len(analysis.opportunities) = 1
    /\ response.opportunities[1].has_product_type
    /\ response.opportunities[1].product_type = "desktop_app"
    /\ analysis.opportunities[1].product_type = "other"

(***************************************************************************)
(* Properties of the barrier between the two stages.                       *)
(***************************************************************************)
\* the batch tasks that have not returned yet
Unfinished == {b \in 1..Len(tasks) : tasks[b].st \in {"pending", "running"}}

\* C20: screen_posts_with_llm merges and returns only when no batch task
\* is pending or running, and while one is, analyze_pain_points_by_source
\* awaits no deep-analysis call and has grouped nothing.
C20_ScreeningIsABarrier ==
    /\ pcS = "returned" => Unfinished = {}
    /\ Unfinished # {} =>
          /\ pcS = "gather"
          /\ pcA \in {"idle", "screening"}
          /\ posts_by_subreddit = <<>>
          /\ all_opportunities = <<>>
    /\ pcA \in {"deep", "returned", "raised"} =>
          (pcS \in {"idle", "returned", "raised"} /\ Unfinished = {})

\* the first group's deep-analysis call is awaited after a screening run
\* of three tasks, one of which had exhausted its fallback chain
C20_Witness ==
    /\ pcA = "deep"
    /\ pcS = "returned"
    /\ Len(tasks) = 3
    /\ Unfinished = {}
    /\ \E b \in 1..Len(tasks) : tasks[b].error = "RuntimeError"

(***************************************************************************)
(* Properties of the scheduling of the batch tasks.                        *)
(***************************************************************************)
\* what batch b is to contribute, given the response and whether the
\* batch's fallback chain was exhausted: nothing the other tasks did and
\* no order of events enters
Contribution(b) ==
    IF tasks[b].error = "RuntimeError" THEN <<>>
    ELSE ProcessContent(StartOf(b), TotalPosts, reply).indices

RECURSIVE ContributionsFrom(_)
\* the contributions of the batches from b on, in batch-start order
ContributionsFrom(b) ==
    IF b > Len(tasks) THEN <<>>
    ELSE Contribution(b) \o ContributionsFrom(b + 1)

\* C21: the screening output does not depend on the schedule.  In every
\* state, whatever the order in which the tasks took their permits and
\* finished, a finished task's list is the contribution of its own batch,
\* and the returned list is the input picked by the contributions in
\* batch-start order: a function of the posts, the response and the set
\* of batches whose calls failed.
C21_OutputIndependentOfSchedule ==
    /\ \A b \in 1..Len(tasks) :
          tasks[b].st = "done" => tasks[b].indices = Contribution(b)
    /\ pcS = "returned" =>
          valuable_posts = Pick(posts, ContributionsFrom(1), 1)

\* five batches, more than there are permits; the first one's calls all
\* failed, so it finished after six attempts and two sleeps, and the
\* returned list holds the other four posts in input order
C21_Witness ==
    /\ pcS = "returned"
    /\ Len(tasks) = max_concurrent + 1
    /\ tasks[1].error = "RuntimeError"
    /\ \A b \in 2..Len(tasks) : tasks[b].error = None
    /\ valuable_posts = SubSeq(posts, 2, Len(posts))

(***************************************************************************)
(* Properties of termination and of the permits at the end.                *)
(***************************************************************************)
\* C22: every batch task gets a permit, finishes and gives the permit
\* back, whether its call succeeded, the response was malformed or the
\* fallback chain was exhausted: the run never has fewer than no permit
\* free, comes to its return and stays there with every task done and all
\* 4 permits free.
C22_ScreeningTerminatesWithPermitsFree ==
    /\ [](permits >= 0)
    /\ <>[](/\ pcS = "returned"
            /\ permits = max_concurrent
            /\ \A b \in 1..Len(tasks) : tasks[b].st = "done")

\* the run of five tasks has returned with all permits free; one task had
\* exhausted its fallback chain and one had accepted a verdict and then
\* caught the exception of a malformed entry
C22_Witness ==
    /\ pcS = "returned"
    /\ permits = max_concurrent
    /\ Len(tasks) = max_concurrent + 1
    /\ \E b \in 1..Len(tasks) : tasks[b].error = "RuntimeError"
    /\ \E b \in 1..Len(tasks) :
          tasks[b].error = "AttributeError" /\ tasks[b].indices # <<>>

(***************************************************************************)
(* Properties of the canonicalization applied to its own results.          *)
(***************************************************************************)
\* the canonicalization applied to a record that holds the name type
Canonicalized(type) ==
    ProductType([has_product_type |-> TRUE, product_type |-> type])

\* C23: the canonicalization leaves the four canonical names unchanged: a
\* returned record whose product_type the model gave as browser_extension,
\* web_app, saas or other carries that name, and canonicalizing the
\* product_type of any returned record again gives the same name.
C23_CanonicalTypesAreFixed ==
    (pcP = "returned" /\ analysis.kind = "result") =>
        \A j \in 1..Len(analysis.opportunities) :
            LET given == response.opportunities[j]
                type == analysis.opportunities[j].product_type
            IN  /\ (given.has_product_type
                      /\ given.product_type \in CanonicalTypes)
                      => type = given.product_type
                /\ Canonicalized(type) = type

====
